---- MODULE Spec2Model ----
(***************************************************************************)
(* Model of app.py: a Streamlit script that resolves two API keys, runs a  *)
(* Tavily news search for a stock name, normalises the search payload with *)
(* extract_contents and calls an OpenAI chat model twice (keywords, then   *)
(* report).                                                                *)
(*                                                                         *)
(* Python values are records [t, v]: t is the Python type, v the payload.  *)
(* A str is a sequence of one-character strings, a list a sequence of      *)
(* values, a dict a function from its keys to values.                      *)
(***************************************************************************)
EXTENDS Naturals, Sequences, FiniteSets, TLC

VARIABLES
    env,              \* os.environ: the two key variables (never written by the script)
    secrets,          \* st.secrets: whether the store can be read, and its entries
    OPENAI_API_KEY,   \* module global, line 33
    TAVILY_API_KEY,   \* module global, line 34
    stock_name,       \* the text_input widget's value, line 61
    clicked,          \* what st.button returned at line 115 in the last script run
    pc,               \* position of the running script ("idle": waiting for the user)
    q,                \* the query built at line 116
    results,          \* the payload bound at line 119
    combined_content, \* line 124
    sources,          \* line 124
    keyword_result,   \* line 156: "unbound", or the kind of message the call returned
    calls,            \* network calls issued by the current script run, in order
    run_error,        \* how tool.run ended in the current script run
    outcome,          \* how the last script run ended
    issued,           \* network calls issued since the process started
    runs,             \* script runs started since the process started
    failed_before,    \* some earlier script run ended in a pipeline failure
    start_keys        \* the two keys as the first script run resolved them

vars == <<env, secrets, OPENAI_API_KEY, TAVILY_API_KEY, stock_name, clicked, pc, q,
          results, combined_content, sources, keyword_result, calls, run_error,
          outcome, issued, runs, failed_before, start_keys>>

-----------------------------------------------------------------------------
(* Python values *)

PyNone == [t |-> "none", v |-> <<>>]
PyInt(n) == [t |-> "int", v |-> n]
PyStr(s) == [t |-> "str", v |-> s]
PyList(l) == [t |-> "list", v |-> l]
PyDict(d) == [t |-> "dict", v |-> d]

\* bool(x) for the value kinds above
Truthy(x) ==
    CASE x.t = "none" -> FALSE
      [] x.t = "int" -> x.v # 0
      [] x.t = "str" -> Len(x.v) > 0
      [] x.t = "list" -> Len(x.v) > 0
      [] x.t = "dict" -> DOMAIN x.v # {}

\* d.get(key): the value, or None when the key is missing
DictGet(d, key) == IF key \in DOMAIN d.v THEN d.v[key] ELSE PyNone

\* a or b
PyOr(a, b) == IF Truthy(a) THEN a ELSE b

\* str.isspace of one character
IsSpace(c) == c \in {" ", "\n", "\t"}

RECURSIVE LStrip(_)
LStrip(s) == IF Len(s) > 0 /\ IsSpace(Head(s)) THEN LStrip(Tail(s)) ELSE s

RECURSIVE RStrip(_)
RStrip(s) ==
    IF Len(s) > 0 /\ IsSpace(s[Len(s)]) THEN RStrip(SubSeq(s, 1, Len(s) - 1)) ELSE s

\* s.strip()
Strip(s) == RStrip(LStrip(s))

\* "\n\n", the separator of line 106
BlankLine == <<"\n", "\n">>

\* sep.join(parts), parts a sequence of str payloads
RECURSIVE Join(_, _)
Join(sep, parts) ==
    IF Len(parts) = 0 THEN <<>>
    ELSE IF Len(parts) = 1 THEN parts[1]
    ELSE parts[1] \o sep \o Join(sep, Tail(parts))

-----------------------------------------------------------------------------
(* extract_contents, lines 75-106 *)

\* mutant of SelectDocs: the branch of lines 89-91 (a dict on its own) is lost
SelectDocs_NoBareDict(raw) ==
    IF raw.t = "list" THEN raw.v
    ELSE IF raw.t = "dict" /\ "results" \in DOMAIN raw.v /\ raw.v["results"].t = "list"
         THEN raw.v["results"].v
    ELSE <<>>

\* lines 84-91: the document list
SelectDocs(raw) ==
    IF raw.t = "list" THEN raw.v
    ELSE IF raw.t = "dict" /\ "results" \in DOMAIN raw.v /\ raw.v["results"].t = "list"
         THEN raw.v["results"].v
    ELSE IF raw.t = "dict" THEN <<raw>>
    ELSE <<>>

\* line 98
DocContent(d) == PyOr(PyOr(DictGet(d, "content"), DictGet(d, "snippet")), PyStr(<<>>))

\* line 101
DocUrl(d) == PyOr(PyOr(DictGet(d, "url"), DictGet(d, "link")), PyStr(<<>>))

\* line 102
DocTitle(d) == PyOr(DictGet(d, "title"), PyStr(<<>>))

\* mutant of LoopBody: a citation already in sources is not appended again
LoopBody_Dedup(acc, d) ==
    IF d.t # "dict" THEN acc
    ELSE LET c == DocContent(d)
             url == DocUrl(d)
             title == DocTitle(d)
             cite == [title |-> title, url |-> url]
         IN [contents |-> IF Truthy(c) THEN Append(acc.contents, c) ELSE acc.contents,
             sources |-> IF (Truthy(url) \/ Truthy(title))
                            /\ ~(\E i \in DOMAIN acc.sources : acc.sources[i] = cite)
                         THEN Append(acc.sources, cite)
                         ELSE acc.sources]

\* lines 95-104: one iteration of the loop over docs, on the accumulators
LoopBody(acc, d) ==
    IF d.t # "dict" THEN acc
    ELSE LET c == DocContent(d)
             url == DocUrl(d)
             title == DocTitle(d)
         IN [contents |-> IF Truthy(c) THEN Append(acc.contents, c) ELSE acc.contents,
             sources |-> IF Truthy(url) \/ Truthy(title)
                         THEN Append(acc.sources, [title |-> title, url |-> url])
                         ELSE acc.sources]

\* lines 93-104: the whole loop
RECURSIVE Loop(_, _)
Loop(acc, docs) ==
    IF Len(docs) = 0 THEN acc ELSE Loop(LoopBody(acc, Head(docs)), Tail(docs))

\* mutant of JoinContents: the result is not stripped
JoinContents_NoStrip(contents) ==
    IF \E i \in DOMAIN contents : contents[i].t # "str"
    THEN [raised |-> TRUE, text |-> <<>>]
    ELSE [raised |-> FALSE,
          text |-> Join(BlankLine, [i \in DOMAIN contents |-> contents[i].v])]

\* line 106: str.join raises TypeError on an item that is not a str
JoinContents(contents) ==
    IF \E i \in DOMAIN contents : contents[i].t # "str"
    THEN [raised |-> TRUE, text |-> <<>>]
    ELSE [raised |-> FALSE,
          text |-> Strip(Join(BlankLine, [i \in DOMAIN contents |-> contents[i].v]))]

\* extract_contents(results): raised = TRUE stands for the TypeError leaving the call
ExtractContents(raw) ==
    IF raw.t = "none" THEN [raised |-> FALSE, text |-> <<>>, sources |-> <<>>]
    ELSE LET acc == Loop([contents |-> <<>>, sources |-> <<>>], SelectDocs(raw))
             j == JoinContents(acc.contents)
         IN [raised |-> j.raised,
             text |-> j.text,
             sources |-> IF j.raised THEN <<>> ELSE acc.sources]

-----------------------------------------------------------------------------
(* Bounds and input sets *)

MaxDocs == 2
MaxSubjectLen == 2
MaxRuns == 3

\* marks a key the document does not have
Absent == [t |-> "absent", v |-> <<>>]

DocKeys == {"content", "snippet", "url", "link", "title"}

\* the dict holding the fields of f that are not Absent
MkDoc(f) == PyDict([k \in {key \in DocKeys : f[key] # Absent} |-> f[k]])

\* (content, snippet) pairs: missing, empty, plain, whitespace-padded, non-str
TextParts ==
    { <<Absent, Absent>>,
      <<PyStr(<<>>), Absent>>,
      <<PyStr(<<>>), PyStr(<<"s">>)>>,
      <<PyStr(<<"x">>), PyStr(<<"s">>)>>,
      <<PyStr(<<"x">>), Absent>>,
      <<PyStr(<<" ", "y", "\n">>), Absent>>,
      <<PyInt(42), Absent>> }

\* (url, link, title) triples
CiteParts ==
    { <<Absent, Absent, Absent>>,
      <<PyStr(<<"u">>), Absent, Absent>>,
      <<PyStr(<<"u">>), PyStr(<<"l">>), Absent>>,
      <<PyStr(<<>>), PyStr(<<"l">>), PyStr(<<"t">>)>>,
      <<Absent, Absent, PyStr(<<"t">>)>> }

Docs ==
    { MkDoc([content |-> tp[1], snippet |-> tp[2],
             url |-> cp[1], link |-> cp[2], title |-> cp[3]]) :
        tp \in TextParts, cp \in CiteParts }

\* list elements: documents and values that are not mappings
Elems == Docs \cup {PyNone, PyInt(42), PyStr(<<"x">>)}

DocLists == UNION { [1..n -> Elems] : n \in 0..MaxDocs }

\* {"results": l}
Wrap(l) == PyDict([results |-> PyList(l)])

\* every payload shape extract_contents is applied to
RawInputs ==
    {PyNone, PyInt(42), PyStr(<<"e">>)}
    \cup { PyList(l) : l \in DocLists }
    \cup { Wrap(l) : l \in DocLists }
    \cup Docs
    \cup { PyDict([results |-> PyStr(<<"r">>), content |-> PyStr(<<"x">>),
                   url |-> PyStr(<<"u">>)]) }

\* the stock names the user can type
Subjects == UNION { [1..n -> {"a", " "}] : n \in 0..MaxSubjectLen }

\* the payloads the search tool returns in the pipeline
DocA == MkDoc([content |-> PyStr(<<"x">>), snippet |-> Absent,
               url |-> PyStr(<<"u">>), link |-> Absent, title |-> PyStr(<<"t">>)])
DocB == MkDoc([content |-> Absent, snippet |-> PyStr(<<"s">>),
               url |-> Absent, link |-> PyStr(<<"l">>), title |-> Absent])
DocNoText == MkDoc([content |-> PyStr(<<>>), snippet |-> Absent,
                    url |-> PyStr(<<"u">>), link |-> Absent, title |-> Absent])
DocBadText == MkDoc([content |-> PyInt(42), snippet |-> Absent,
                     url |-> Absent, link |-> Absent, title |-> Absent])

SearchPayloads ==
    { PyNone, PyStr(<<"e">>), PyList(<<>>), PyList(<<DocA, DocB>>), PyList(<<DocNoText>>),
      PyList(<<DocBadText>>), Wrap(<<DocA>>), DocB }

-----------------------------------------------------------------------------
(* Secrets, lines 23-34 *)

SecretKeys == {"OPENAI_API_KEY", "TAVILY_API_KEY"}

\* get_secret(key, default): the environment first, then st.secrets; a failing
\* secrets lookup is swallowed
get_secret(key, default) ==
    LET v == env[key]
    IN IF v # "" THEN v
       ELSE IF ~secrets.available THEN default
       ELSE IF key \in DOMAIN secrets.entries THEN secrets.entries[key]
       ELSE default

\* the environments and secret stores the process can start with
Environments == [SecretKeys -> {"", "sk-env"}]
SecretStores ==
    {[available |-> FALSE, entries |-> <<>>]}
    \cup { [available |-> TRUE, entries |-> e] :
             e \in UNION { [ks -> {"", "sk-store"}] : ks \in SUBSET SecretKeys } }

-----------------------------------------------------------------------------
(* The script, one action per stretch between two external calls *)

\* the literal appended at line 116: a space, two Hangul syllables ("recent"),
\* a space, two Hangul syllables ("news"), each syllable written in Latin letters
QuerySuffix == <<" ", "choe", "geun", " ", "nyu", "seu">>

\* outcomes of a script run that are failures of the pipeline
Failures ==
    {"SearchUnavailable", "NoContent", "GenerationFailed_keywords",
     "GenerationFailed_report"}

Call(api, arg) == [api |-> api, arg |-> arg]

\* mutant of MissingConfiguration: the check of TAVILY_API_KEY (lines 52-54) is lost
MissingConfiguration_OpenAIOnly(okey, tkey) == okey = ""

\* lines 48-54: either key is falsy
MissingConfiguration(okey, tkey) == okey = "" \/ tkey = ""

\* mutant of Triggered: the name is tested without strip()
Triggered_NoStrip(button, name) == button /\ name # <<>>

\* line 115: the button was clicked and the stripped name is truthy
Triggered(button, name) == button /\ Strip(name) # <<>>

\* line 116
BuildQuery(name) == Strip(name) \o QuerySuffix

\* mutant of NoContent: the test is "combined_content is None", never true of a str
NoContent_NoneOnly(text) == FALSE

\* line 126: not combined_content
NoContent(text) == text = <<>>

Init ==
    /\ env \in Environments
    /\ secrets \in SecretStores
    /\ OPENAI_API_KEY = get_secret("OPENAI_API_KEY", "")
    /\ TAVILY_API_KEY = get_secret("TAVILY_API_KEY", "")
    /\ stock_name = <<>>
    /\ clicked = FALSE
    /\ pc = "idle"
    /\ q = <<>>
    /\ results = PyNone
    /\ combined_content = <<>>
    /\ sources = <<>>
    /\ keyword_result = "unbound"
    /\ calls = <<>>
    /\ run_error = "none"
    /\ outcome = "none"
    /\ issued = 0
    /\ runs = 0
    /\ failed_before = FALSE
    /\ start_keys = <<OPENAI_API_KEY, TAVILY_API_KEY>>

\* A widget interaction reruns the script from the top: lines 33-61 and the
\* guard and query of lines 115-116.  name is the text the user left in the
\* input, button whether the interaction was a click on the button.
Rerun(name, button) ==
    /\ pc = "idle"
    /\ runs < MaxRuns
    /\ runs' = runs + 1
    /\ failed_before' = (failed_before \/ outcome \in Failures)
    /\ OPENAI_API_KEY' = get_secret("OPENAI_API_KEY", "")
    /\ TAVILY_API_KEY' = get_secret("TAVILY_API_KEY", "")
    /\ calls' = <<>>
    /\ run_error' = "none"
    /\ results' = PyNone
    /\ combined_content' = <<>>
    /\ sources' = <<>>
    /\ keyword_result' = "unbound"
    /\ IF MissingConfiguration(OPENAI_API_KEY', TAVILY_API_KEY')
       THEN \* lines 48-54: st.stop() before the widgets are created
            /\ outcome' = "MissingConfiguration"
            /\ pc' = "idle"
            /\ q' = <<>>
            /\ clicked' = FALSE
            /\ UNCHANGED stock_name
       ELSE /\ stock_name' = name
            /\ clicked' = button
            /\ IF Triggered(button, name)
               THEN /\ q' = BuildQuery(name)
                    /\ outcome' = "running"
                    /\ pc' = "search_run"
               ELSE /\ q' = <<>>
                    /\ outcome' = "NotTriggered"
                    /\ pc' = "idle"
    /\ UNCHANGED <<env, secrets, start_keys, issued>>

\* line 71: tool.run(query) returns a payload
TavilyRunReturns(payload) ==
    /\ pc = "search_run"
    /\ calls' = Append(calls, Call("tavily.run", q))
    /\ issued' = issued + 1
    /\ results' = payload
    /\ pc' = "extract"
    /\ UNCHANGED <<env, secrets, start_keys, OPENAI_API_KEY, TAVILY_API_KEY,
                   stock_name, clicked, q,
                   combined_content, sources, run_error, outcome, runs, failed_before,
                   keyword_result>>

\* lines 71-72: tool.run raises.  kind = "unsupported": this client version has
\* no such call surface and nothing is sent; kind = "transient": the request was
\* sent and failed (transport, auth).  except Exception catches both.
TavilyRunRaises(kind) ==
    /\ pc = "search_run"
    /\ run_error' = kind
    /\ IF kind = "transient"
       THEN /\ calls' = Append(calls, Call("tavily.run", q))
            /\ issued' = issued + 1
       ELSE UNCHANGED <<calls, issued>>
    /\ pc' = "search_invoke"
    /\ UNCHANGED <<env, secrets, start_keys, OPENAI_API_KEY, TAVILY_API_KEY,
                   stock_name, clicked, q, results,
                   combined_content, sources, outcome, runs, failed_before,
                   keyword_result>>

\* line 73: tool.invoke(query) returns a payload
TavilyInvokeReturns(payload) ==
    /\ pc = "search_invoke"
    /\ calls' = Append(calls, Call("tavily.invoke", q))
    /\ issued' = issued + 1
    /\ results' = payload
    /\ pc' = "extract"
    /\ UNCHANGED <<env, secrets, start_keys, OPENAI_API_KEY, TAVILY_API_KEY,
                   stock_name, clicked, q,
                   combined_content, sources, run_error, outcome, runs, failed_before,
                   keyword_result>>

\* mutant of TavilyInvokeRaises: the handler ends the process instead of the
\* script run
TavilyInvokeRaises_Fatal(kind) ==
    /\ pc = "search_invoke"
    /\ IF kind = "transient"
       THEN /\ calls' = Append(calls, Call("tavily.invoke", q))
            /\ issued' = issued + 1
       ELSE UNCHANGED <<calls, issued>>
    /\ outcome' = "SearchUnavailable"
    /\ pc' = "exited"
    /\ UNCHANGED <<env, secrets, start_keys, OPENAI_API_KEY, TAVILY_API_KEY, stock_name,
                   clicked, q, results, combined_content, sources, run_error, runs,
                   failed_before, keyword_result>>

\* lines 73, 120-122: tool.invoke raises, tavily_search raises, the handler
\* reports the search error and stops the script
TavilyInvokeRaises(kind) ==
    /\ pc = "search_invoke"
    /\ IF kind = "transient"
       THEN /\ calls' = Append(calls, Call("tavily.invoke", q))
            /\ issued' = issued + 1
       ELSE UNCHANGED <<calls, issued>>
    /\ outcome' = "SearchUnavailable"
    /\ pc' = "idle"
    /\ UNCHANGED <<env, secrets, start_keys, OPENAI_API_KEY, TAVILY_API_KEY,
                   stock_name, clicked, q, results,
                   combined_content, sources, run_error, runs, failed_before,
                   keyword_result>>

\* lines 124-128: normalise the payload; stop with the warning on empty text.
\* A TypeError out of extract_contents is caught by nothing in the script.
Normalize ==
    /\ pc = "extract"
    /\ LET r == ExtractContents(results)
       IN IF r.raised
          THEN /\ outcome' = "TypeError"
               /\ pc' = "idle"
               /\ UNCHANGED <<combined_content, sources>>
          ELSE /\ combined_content' = r.text
               /\ sources' = r.sources
               /\ IF NoContent(r.text)
                  THEN outcome' = "NoContent" /\ pc' = "idle"
                  ELSE outcome' = outcome /\ pc' = "keywords"
    /\ UNCHANGED <<env, secrets, start_keys, OPENAI_API_KEY, TAVILY_API_KEY,
                   stock_name, clicked, q, results,
                   calls, run_error, issued, runs, failed_before, keyword_result>>

\* mutant of KeywordStage: the except clause lacks st.stop() and the script
\* goes on to the report stage
KeywordStage_NoStop(how) ==
    /\ pc = "keywords"
    /\ calls' = Append(calls, Call("llm.keywords", combined_content))
    /\ issued' = issued + 1
    /\ keyword_result' = IF how = "raise" THEN "unbound" ELSE how
    /\ pc' = "report"
    /\ outcome' = IF how = "ok" THEN outcome ELSE "GenerationFailed_keywords"
    /\ UNCHANGED <<env, secrets, start_keys, OPENAI_API_KEY, TAVILY_API_KEY, stock_name,
                   clicked, q, results, combined_content, sources, run_error, runs,
                   failed_before>>

\* lines 154-160: the keyword call.  how = "ok": the call returns and its
\* content is rendered; "raise": llm.invoke raises; "badcontent": the call
\* returns and .content.strip() raises.  The last two reach the except clause.
KeywordStage(how) ==
    /\ pc = "keywords"
    /\ calls' = Append(calls, Call("llm.keywords", combined_content))
    /\ issued' = issued + 1
    /\ keyword_result' = IF how = "raise" THEN "unbound" ELSE how
    /\ IF how = "ok"
       THEN pc' = "report" /\ outcome' = outcome
       ELSE pc' = "idle" /\ outcome' = "GenerationFailed_keywords"
    /\ UNCHANGED <<env, secrets, start_keys, OPENAI_API_KEY, TAVILY_API_KEY,
                   stock_name, clicked, q, results,
                   combined_content, sources, run_error, runs, failed_before>>

\* lines 180-187: the report call
ReportStage(how) ==
    /\ pc = "report"
    /\ calls' = Append(calls, Call("llm.report", combined_content))
    /\ issued' = issued + 1
    /\ pc' = "idle"
    /\ outcome' = IF how = "ok" THEN "Done" ELSE "GenerationFailed_report"
    /\ UNCHANGED <<env, secrets, start_keys, OPENAI_API_KEY, TAVILY_API_KEY,
                   stock_name, clicked, q, results,
                   combined_content, sources, run_error, runs, failed_before,
                   keyword_result>>

RaiseKinds == {"unsupported", "transient"}
LlmOutcomes == {"ok", "raise", "badcontent"}

Next ==
    \/ \E name \in Subjects, button \in BOOLEAN : Rerun(name, button)
    \/ \E payload \in SearchPayloads : TavilyRunReturns(payload)
    \/ \E kind \in RaiseKinds : TavilyRunRaises(kind)
    \/ \E payload \in SearchPayloads : TavilyInvokeReturns(payload)
    \/ \E kind \in RaiseKinds : TavilyInvokeRaises(kind)
    \/ Normalize
    \/ \E how \in LlmOutcomes : KeywordStage(how)
    \/ \E how \in LlmOutcomes : ReportStage(how)

Spec == Init /\ [][Next]_vars

(* extract_contents on its own: the script stands at line 124 with any payload *)
InitNorm ==
    /\ env = [k \in SecretKeys |-> "sk-env"]
    /\ secrets = [available |-> FALSE, entries |-> <<>>]
    /\ OPENAI_API_KEY = get_secret("OPENAI_API_KEY", "")
    /\ TAVILY_API_KEY = get_secret("TAVILY_API_KEY", "")
    /\ stock_name = <<"a">>
    /\ clicked = TRUE
    /\ pc = "extract"
    /\ q = Strip(stock_name) \o QuerySuffix
    /\ results \in RawInputs
    /\ combined_content = <<>>
    /\ sources = <<>>
    /\ keyword_result = "unbound"
    /\ calls = <<Call("tavily.run", q)>>
    /\ run_error = "none"
    /\ outcome = "running"
    /\ issued = 1
    /\ runs = 1
    /\ failed_before = FALSE
    /\ start_keys = <<OPENAI_API_KEY, TAVILY_API_KEY>>

NextNorm == Normalize

SpecNorm == InitNorm /\ [][NextNorm]_vars

-----------------------------------------------------------------------------
(* Properties of the pipeline, checked under Spec *)

SearchApis == {"tavily.run", "tavily.invoke"}
LlmApis == {"llm.keywords", "llm.report"}

\* how many calls of the current script run went to one of apis
CountCalls(apis) == Cardinality({i \in DOMAIN calls : calls[i].api \in apis})

\* the current (or last) script run got past the check of line 126
PassedLine124 ==
    \/ pc \in {"keywords", "report"}
    \/ /\ pc = "idle"
       /\ outcome \in {"NoContent", "GenerationFailed_keywords",
                       "GenerationFailed_report", "Done"}

\* C1: while a required key is empty no search call and no generative call has
\* been issued since the process started, the script is never inside the
\* pipeline, and every script run has ended with MissingConfiguration.
C1_NoCallWithEmptySecret ==
    (OPENAI_API_KEY = "" \/ TAVILY_API_KEY = "") =>
        /\ issued = 0
        /\ calls = <<>>
        /\ pc = "idle"
        /\ (runs > 0 => outcome = "MissingConfiguration")

\* C1 witness: only the search key is missing and the user has interacted twice.
C1_Witness ==
    /\ OPENAI_API_KEY # ""
    /\ TAVILY_API_KEY = ""
    /\ runs >= 2
    /\ outcome = "MissingConfiguration"

\* C2: once extract_contents has returned an empty text for the payload of this
\* script run, the run has ended with NoContent and its call log holds no
\* keyword call and no report call.
C2_EmptyTextStopsBeforeGeneration ==
    PassedLine124 =>
        /\ combined_content = ExtractContents(results).text
        /\ (combined_content = <<>> =>
               /\ outcome = "NoContent"
               /\ pc = "idle"
               /\ CountCalls(LlmApis) = 0)

\* C2 witness: the search returned [] and the run ended with NoContent after
\* its one search call.
C2_Witness ==
    /\ results = PyList(<<>>)
    /\ outcome = "NoContent"
    /\ Len(calls) = 1
    /\ calls[1].api = "tavily.run"

\* C3 (as claimed): a script run sends at most one search request, and
\* tool.invoke is reached only when tool.run was not supported.
C3_OneSearchRequest ==
    /\ CountCalls(SearchApis) <= 1
    /\ (pc = "search_invoke" => run_error = "unsupported")
    /\ (\E i \in DOMAIN calls : calls[i].api = "tavily.invoke") => run_error = "unsupported"

\* position of a call in the order search < keywords < report
Rank(api) ==
    CASE api \in SearchApis -> 0
      [] api = "llm.keywords" -> 1
      [] api = "llm.report" -> 2

\* C4: the generative calls are ordered and gated: at most one keyword call
\* and one report call per script run; the keyword call comes after a search
\* call that returned a payload whose text is not empty; the report call comes
\* after a keyword call whose message was rendered; after a failed keyword call
\* the run has ended with GenerationFailed("keywords") and no report call.
C4_GenerationOrderedAndGated ==
    /\ CountCalls({"llm.keywords"}) <= 1
    /\ CountCalls({"llm.report"}) <= 1
    /\ \A i, j \in DOMAIN calls :
          (i < j) => /\ Rank(calls[i].api) <= Rank(calls[j].api)
                     /\ (Rank(calls[j].api) > 0 => Rank(calls[i].api) < Rank(calls[j].api))
    /\ \A j \in DOMAIN calls :
          calls[j].api = "llm.keywords" =>
              /\ j > 1 /\ calls[j - 1].api \in SearchApis
              /\ ~ExtractContents(results).raised
              /\ ExtractContents(results).text # <<>>
              /\ calls[j].arg = ExtractContents(results).text
    /\ \A j \in DOMAIN calls :
          calls[j].api = "llm.report" =>
              /\ j > 1 /\ calls[j - 1].api = "llm.keywords"
              /\ keyword_result = "ok"
    /\ (CountCalls({"llm.keywords"}) = 1 /\ keyword_result # "ok" /\ pc # "keywords") =>
          /\ outcome = "GenerationFailed_keywords"
          /\ pc = "idle"
          /\ CountCalls({"llm.report"}) = 0
    /\ (outcome = "GenerationFailed_keywords") =>
          /\ calls[Len(calls)].api = "llm.keywords"
          /\ pc = "idle"

\* C4 witness: the keyword call raised after a successful search, and the run
\* ended there.
C4_Witness ==
    /\ outcome = "GenerationFailed_keywords"
    /\ keyword_result = "unbound"
    /\ Len(calls) = 2
    /\ calls[1].api = "tavily.run"
    /\ calls[2].api = "llm.keywords"

\* C9: with a stock name that is empty after strip() the script run issues no
\* call and never enters the pipeline, and every search call of a script run
\* carries the stripped, non-empty stock name followed by the fixed suffix.
C9_BlankSubjectRunsNothing ==
    /\ (Strip(stock_name) = <<>>) => (calls = <<>> /\ pc = "idle" /\ q = <<>>)
    /\ \A i \in DOMAIN calls :
          calls[i].api \in SearchApis =>
              /\ Strip(stock_name) # <<>>
              /\ calls[i].arg = Strip(stock_name) \o QuerySuffix
    /\ (pc \in {"search_run", "search_invoke"}) => q = Strip(stock_name) \o QuerySuffix

\* C9 witness: the button was clicked with a stock name of blanks only.
C9_Witness ==
    /\ clicked
    /\ stock_name = <<" ", " ">>
    /\ outcome = "NotTriggered"
    /\ issued = 0

\* C10: the resolved keys are still the ones the process started with,
\* whatever failed since; a failed script run leaves the script idle, and the
\* next click starts the pipeline again; every external call of the pipeline
\* can go through whatever failed before.
C10_FailureAbortsOnlyTheAction ==
    /\ <<OPENAI_API_KEY, TAVILY_API_KEY>> = start_keys
    /\ (outcome \in Failures) => pc = "idle"
    /\ (outcome \in Failures /\ runs < MaxRuns) =>
          ENABLED (Rerun(<<"a">>, TRUE) /\ pc' = "search_run")
    /\ (pc = "search_run") => ENABLED TavilyRunReturns(PyList(<<DocA, DocB>>))
    /\ (pc = "keywords") => ENABLED KeywordStage("ok")
    /\ (pc = "report") => ENABLED ReportStage("ok")

\* C10 witness: a script run that followed a failed one ran search, keywords
\* and report to the end.
C10_Witness ==
    /\ failed_before
    /\ outcome = "Done"
    /\ Len(calls) = 3
    /\ calls[1].api = "tavily.run"
    /\ calls[2].api = "llm.keywords"
    /\ calls[3].api = "llm.report"

-----------------------------------------------------------------------------
(* Properties of extract_contents, checked under SpecNorm *)

\* what the call of line 124 gave, read from the state after it
Out ==
    [raised |-> (outcome = "TypeError"), text |-> combined_content, sources |-> sources]

\* the first value among keys that d holds and that is not empty, as a
\* sequence of at most one value
RECURSIVE FirstNonEmpty(_, _)
FirstNonEmpty(d, keys) ==
    IF Len(keys) = 0 THEN <<>>
    ELSE IF Head(keys) \in DOMAIN d.v /\ Truthy(d.v[Head(keys)]) THEN <<d.v[Head(keys)]>>
    ELSE FirstNonEmpty(d, Tail(keys))

\* the fragments of the mapping documents of docs, in document order
RECURSIVE Fragments(_)
Fragments(docs) ==
    IF Len(docs) = 0 THEN <<>>
    ELSE (IF Head(docs).t = "dict"
          THEN FirstNonEmpty(Head(docs), <<"content", "snippet">>)
          ELSE <<>>) \o Fragments(Tail(docs))

AllStr(vals) == \A i \in DOMAIN vals : vals[i].t = "str"

\* the fragments joined by a blank line and trimmed
JoinedAndTrimmed(frags) == Strip(Join(BlankLine, [i \in DOMAIN frags |-> frags[i].v]))

SequenceOfMappings(raw) == raw.t = "list" /\ \A i \in DOMAIN raw.v : raw.v[i].t = "dict"

\* every field of every document of raw is a str
StrFieldsOnly(raw) ==
    \A i \in DOMAIN raw.v : \A k \in DOMAIN raw.v[i].v : raw.v[i].v[k].t = "str"

\* C5 (as claimed): extract_contents never raises, and a payload that is None
\* or neither a list nor a dict gives empty text and no sources.
C5_TotalAndFailOpen ==
    (pc # "extract") =>
        /\ outcome # "TypeError"
        /\ (results.t \notin {"list", "dict"} => (combined_content = <<>> /\ sources = <<>>))

\* C6 (as claimed), on documents whose fields are all strings: the text is the
\* fragments joined by a blank line and trimmed, and when every document has a
\* "content" field the text is exactly those values joined by a blank line.
C6_TextIsExactlyTheContents ==
    (pc # "extract" /\ SequenceOfMappings(results) /\ StrFieldsOnly(results)) =>
        /\ combined_content = JoinedAndTrimmed(Fragments(results.v))
        /\ (\A i \in DOMAIN results.v : "content" \in DOMAIN results.v[i].v) =>
              combined_content =
                  Join(BlankLine, [i \in DOMAIN results.v |-> results.v[i].v["content"].v])

\* C6 (amended): for a list of mappings, when every fragment (content if not
\* empty, else snippet if not empty) is a str the call returns the fragments
\* joined in document order by a blank line and trimmed, and when some fragment
\* is not a str the call raises; when every document has a non-empty str
\* "content" the text is those values joined by a blank line, then trimmed.
C6_TextIsJoinedTrimmedFragments ==
    (pc # "extract" /\ SequenceOfMappings(results)) =>
        /\ IF AllStr(Fragments(results.v))
           THEN /\ outcome # "TypeError"
                /\ combined_content = JoinedAndTrimmed(Fragments(results.v))
           ELSE outcome = "TypeError"
        /\ (\A i \in DOMAIN results.v :
               /\ "content" \in DOMAIN results.v[i].v
               /\ results.v[i].v["content"].t = "str"
               /\ results.v[i].v["content"].v # <<>>) =>
              combined_content =
                  Strip(Join(BlankLine,
                             [i \in DOMAIN results.v |-> results.v[i].v["content"].v]))

\* C6 witness: two documents, the first with a padded content and the second
\* falling back to its snippet; the text keeps the inner line break.
C6_Witness ==
    /\ pc = "keywords"
    /\ results = PyList(<<MkDoc([content |-> PyStr(<<" ", "y", "\n">>), snippet |-> Absent,
                                url |-> Absent, link |-> Absent, title |-> Absent]),
                          MkDoc([content |-> PyStr(<<>>), snippet |-> PyStr(<<"s">>),
                                url |-> Absent, link |-> Absent, title |-> Absent])>>)
    /\ combined_content = <<"y", "\n", "\n", "\n", "s">>

\* C7: a list and the same list under "results" give the same result; a dict
\* without a list under "results" gives the result of the one-document list;
\* {"content": "x", "url": "u"} gives text "x" and the one source
\* {title: "", url: "u"}.
C7_ShapeDispatch ==
    (pc # "extract") =>
        /\ (results.t = "list") => ExtractContents(Wrap(results.v)) = Out
        /\ (results.t = "dict" /\ "results" \in DOMAIN results.v
              /\ results.v["results"].t = "list") =>
              ExtractContents(results.v["results"]) = Out
        /\ (results.t = "dict" /\ ~("results" \in DOMAIN results.v
                                     /\ results.v["results"].t = "list")) =>
              ExtractContents(PyList(<<results>>)) = Out
        /\ (results = PyDict([content |-> PyStr(<<"x">>), url |-> PyStr(<<"u">>)])) =>
              /\ combined_content = <<"x">>
              /\ sources = <<[title |-> PyStr(<<>>), url |-> PyStr(<<"u">>)]>>
              /\ outcome # "TypeError"

\* C7 witness: the bare mapping {"content": "x", "url": "u"} has been normalised.
C7_Witness ==
    /\ pc = "keywords"
    /\ results = PyDict([content |-> PyStr(<<"x">>), url |-> PyStr(<<"u">>)])
    /\ Len(sources) = 1

\* the citations of the mapping documents of docs that have a url, link or
\* title, in document order
RECURSIVE Citations(_)
Citations(docs) ==
    IF Len(docs) = 0 THEN <<>>
    ELSE LET d == Head(docs)
             url == IF d.t = "dict" THEN FirstNonEmpty(d, <<"url", "link">>) ELSE <<>>
             title == IF d.t = "dict" THEN FirstNonEmpty(d, <<"title">>) ELSE <<>>
         IN (IF url = <<>> /\ title = <<>> THEN <<>>
             ELSE <<[title |-> IF title = <<>> THEN PyStr(<<>>) ELSE title[1],
                     url |-> IF url = <<>> THEN PyStr(<<>>) ELSE url[1]]>>)
            \o Citations(Tail(docs))

\* an element that is no mapping, or a mapping with none of the five fields set
Blank(d) ==
    \/ d.t # "dict"
    \/ \A k \in DocKeys : ~(k \in DOMAIN d.v /\ Truthy(d.v[k]))

RECURSIVE WithoutBlanks(_)
WithoutBlanks(docs) ==
    IF Len(docs) = 0 THEN <<>>
    ELSE (IF Blank(Head(docs)) THEN <<>> ELSE <<Head(docs)>>) \o WithoutBlanks(Tail(docs))

\* C8: the returned sources are the citations of the documents that have a
\* url, link or title, one per document, in order, repeats kept; every citation
\* has a title or a url; blank elements change nothing in the result; and the
\* call raises only on a document with a fragment that is not a str.
C8_SourcesOnePerCitedDocument ==
    (pc # "extract") =>
        /\ (outcome # "TypeError") => sources = Citations(SelectDocs(results))
        /\ \A i \in DOMAIN sources : Truthy(sources[i].title) \/ Truthy(sources[i].url)
        /\ (results.t = "list") =>
              ExtractContents(PyList(WithoutBlanks(results.v))) = Out
        /\ (outcome = "TypeError") => ~AllStr(Fragments(SelectDocs(results)))

\* C8 witness: a list holding the same cited document twice gave the same
\* citation twice.
C8_Witness ==
    /\ pc = "keywords"
    /\ results.t = "list"
    /\ Len(results.v) = 2
    /\ results.v[1] = results.v[2]
    /\ Len(sources) = 2
    /\ sources[1] = sources[2]

====
